---- MODULE Spec2Model ----
(***************************************************************************)
(* Model of the Sycon STM-100 serial driver (src/stm100.py): the frame     *)
(* codec (_calc_checksum, _send, _read), the session's query() and the     *)
(* typed accessors built on it, the range-checked setters, zero(), the     *)
(* power-on status, the film table and close().                            *)
(*                                                                         *)
(* Text (a Python str) is a sequence of code points, a byte string is a    *)
(* sequence of numbers 0..255.  bytes.decode() is strict UTF-8.  The       *)
(* transport is a read buffer (inbuf) and the bytes written (wire); a      *)
(* read_bytes(n) that finds fewer than n bytes before the 200 ms timeout   *)
(* raises the transport's timeout error after consuming what had arrived.  *)
(***************************************************************************)
EXTENDS Integers, Sequences, FiniteSets, TLC

VARIABLES
    statuscode,  \* STM100.statuscode: None or the last status character
    inbuf,       \* the transport's read buffer: bytes received and not yet read
    wire,        \* the bytes the last call wrote to the transport
    rx,          \* the byte stream the last call's _read() saw (buffer + arrivals)
    log,         \* the error-level log lines of the last call
    ret,         \* the last call: operation, command, outcome, returned value
    decoded,     \* first character of the most recently decoded reply (history)
    arg,         \* the command under test of the loopback specification
    films,       \* STM100._films: not set (None) or the list of film records
    fpc,         \* films call: -1 outside, else the number of its queries answered
    row,         \* films call: the values of the record under construction
    closes       \* the number of times the transport's close() was called

vars == <<statuscode, inbuf, wire, rx, log, ret, decoded, arg, films, fpc, row, closes>>

(***************************************************************************)
(* Bounds and program constants.                                           *)
(***************************************************************************)
None == -1          \* Python's None, where a code point is expected
MaxMsgLen == 10     \* _send: "maximum message length is 10!"
STX == 2            \* the start byte
CmdLenBound == 11   \* loopback specification: commands of length 0..CmdLenBound
MaxStale == 1       \* session specification: calls start with at most MaxStale unread bytes
MaxCloses == 2      \* session specification: close() is called at most MaxCloses times

CmdAlphabet == {63, 75}      \* '?' and 'K'

(***************************************************************************)
(* Sequences.                                                              *)
(***************************************************************************)
RECURSIVE SumSeq(_)
SumSeq(s) == IF s = <<>> THEN 0 ELSE Head(s) + SumSeq(Tail(s))

Drop(s, n) == SubSeq(s, n + 1, Len(s))
Take(s, n) == SubSeq(s, 1, n)

SeqsUpTo(S, n) == UNION {[1..k -> S] : k \in 0..n}

(***************************************************************************)
(* bytes.decode(): strict UTF-8.  [ok, s]: s is the decoded text.          *)
(***************************************************************************)
IsCont(b) == b \in 128..191

RECURSIVE utf8_decode(_)
utf8_decode(b) ==
    IF b = <<>> THEN [ok |-> TRUE, s |-> <<>>]
    ELSE LET c == Head(b)
             n == Len(b)
             w == IF c < 128 THEN 1
                  ELSE IF c \in 194..223 /\ n >= 2 /\ IsCont(b[2]) THEN 2
                  ELSE IF c \in 224..239 /\ n >= 3 /\ IsCont(b[2]) /\ IsCont(b[3])
                          /\ (c = 224 => b[2] >= 160) /\ (c = 237 => b[2] <= 159) THEN 3
                  ELSE IF c \in 240..244 /\ n >= 4 /\ IsCont(b[2]) /\ IsCont(b[3])
                          /\ IsCont(b[4])
                          /\ (c = 240 => b[2] >= 144) /\ (c = 244 => b[2] <= 143) THEN 4
                  ELSE 0
             cp == CASE w = 1 -> c
                     [] w = 2 -> (c - 192) * 64 + (b[2] - 128)
                     [] w = 3 -> (c - 224) * 4096 + (b[2] - 128) * 64 + (b[3] - 128)
                     [] w = 4 -> (c - 240) * 262144 + (b[2] - 128) * 4096
                                 + (b[3] - 128) * 64 + (b[4] - 128)
                     [] OTHER -> 0
         IN  IF w = 0 THEN [ok |-> FALSE, s |-> <<>>]
             ELSE LET r == utf8_decode(Drop(b, w))
                  IN  IF r.ok THEN [ok |-> TRUE, s |-> <<cp>> \o r.s]
                      ELSE [ok |-> FALSE, s |-> <<>>]

(***************************************************************************)
(* STM100._calc_checksum                                                   *)
(***************************************************************************)
calc_checksum_nomod(msg) == SumSeq(msg)

calc_checksum(msg) == SumSeq(msg) % 256

(***************************************************************************)
(* STM100._send: [kind, wire].  The length check precedes everything;      *)
(* bytes([...]) raises ValueError for a code point above 255.  write_raw   *)
(* on a resource that was closed raises pyvisa's InvalidSession before a   *)
(* byte is written.                                                        *)
(***************************************************************************)
send_limit11(msg) ==
    IF Len(msg) > MaxMsgLen + 1 THEN [kind |-> "ValueError", wire |-> <<>>]
    ELSE [kind |-> "ok",
          wire |-> <<STX, Len(msg)>> \o msg \o <<calc_checksum(msg)>>]

send(msg) ==
    IF Len(msg) > MaxMsgLen THEN [kind |-> "ValueError", wire |-> <<>>]
    ELSE IF \E i \in 1..Len(msg) : msg[i] > 255
         THEN [kind |-> "ValueError", wire |-> <<>>]
    ELSE IF closes > 0 THEN [kind |-> "InvalidSession", wire |-> <<>>]
    ELSE [kind |-> "ok",
          wire |-> <<STX, Len(msg)>> \o msg \o <<calc_checksum(msg)>>]

(***************************************************************************)
(* STM100._read on the byte stream buf (all bytes that arrive before the   *)
(* timeout).  [kind, status, body, rest, log]: rest is what stays in the   *)
(* transport's read buffer.                                                *)
(***************************************************************************)
ReadFail(kind, rest, lg) ==
    [kind |-> kind, status |-> None, body |-> <<>>, rest |-> rest, log |-> lg]

\* lines 211-215: the checksum is compared and a mismatch only logged;
\* msg[0] of an empty payload raises IndexError
deliver_strict(msg, chksum, rest) ==
    IF chksum # calc_checksum(msg)
    THEN ReadFail("RuntimeError", rest, <<"Checksum mismatch">>)
    ELSE IF msg = <<>> THEN ReadFail("IndexError", rest, <<>>)
    ELSE [kind |-> "ok", status |-> Head(msg), body |-> Tail(msg),
          rest |-> rest, log |-> <<>>]

deliver(msg, chksum, rest) ==
    LET lg == IF chksum = calc_checksum(msg) THEN <<>> ELSE <<"Checksum mismatch">>
    IN  IF msg = <<>> THEN ReadFail("IndexError", rest, lg)
        ELSE [kind |-> "ok", status |-> Head(msg), body |-> Tail(msg),
              rest |-> rest, log |-> lg]

\* lines 208-210: length byte, payload (decoded as text), checksum byte
read_frame(buf) ==
    IF Len(buf) < 2 THEN ReadFail("Timeout", <<>>, <<>>)
    ELSE LET msgsize == buf[2]
             dec == utf8_decode(SubSeq(buf, 3, 2 + msgsize))
         IN  IF Len(buf) < 2 + msgsize THEN ReadFail("Timeout", <<>>, <<>>)
             ELSE IF ~dec.ok
                  THEN ReadFail("UnicodeDecodeError", Drop(buf, 2 + msgsize), <<>>)
             ELSE IF Len(buf) < 3 + msgsize THEN ReadFail("Timeout", <<>>, <<>>)
             ELSE deliver(dec.s, buf[3 + msgsize], Drop(buf, 3 + msgsize))

\* lines 216-220: no start byte; the read buffer is flushed
no_start_byte_unflushed(buf) ==
    ReadFail("RuntimeError", Drop(buf, 1), <<"Received message without start byte">>)

\* ... discarding only the byte after the one that was read
no_start_byte_partial(buf) ==
    ReadFail("RuntimeError", Drop(buf, 2), <<"Received message without start byte">>)

no_start_byte(buf) ==
    ReadFail("RuntimeError", <<>>, <<"Received message without start byte">>)

read(buf) ==
    IF Len(buf) < 1 THEN ReadFail("Timeout", <<>>, <<>>)
    ELSE IF buf[1] >= 128 THEN ReadFail("UnicodeDecodeError", Drop(buf, 1), <<>>)
    ELSE IF buf[1] = STX THEN read_frame(buf)
    ELSE no_start_byte(buf)

(***************************************************************************)
(* Returned values.                                                        *)
(***************************************************************************)
NoVal == [t |-> "none", n |-> 0, e |-> 0, b |-> FALSE]
NanVal == [t |-> "nan", n |-> 0, e |-> 0, b |-> FALSE]
StrVal == [t |-> "str", n |-> 0, e |-> 0, b |-> FALSE]   \* the text is in body
BoolVal(x) == [t |-> "bool", n |-> 0, e |-> 0, b |-> x]
IntVal(x) == [t |-> "int", n |-> x, e |-> 0, b |-> FALSE]
FloatVal(m, x) == [t |-> "float", n |-> m, e |-> x, b |-> FALSE]
\* a list of three booleans, the first counted 1, the second 2, the third 4
FlagsVal(f) ==
    [t |-> "flags", e |-> 0, b |-> FALSE,
     n |-> (IF f[1] THEN 1 ELSE 0) + (IF f[2] THEN 2 ELSE 0) + (IF f[3] THEN 4 ELSE 0)]

(***************************************************************************)
(* STM100.query(msg) with statuscode st, read buffer buf, and arr the      *)
(* bytes that arrive after the write and before the timeout.               *)
(***************************************************************************)
Outcome(msg, kind, stage, body, val, st, buf, w, stream, lg) ==
    [cmd |-> msg, kind |-> kind, stage |-> stage, body |-> body, val |-> val,
     statuscode |-> st, inbuf |-> buf, wire |-> w, rx |-> stream, log |-> lg]

query_early_status(msg, st, buf, arr) ==
    LET s == send(msg)
        r == read(buf \o arr)
    IN  IF s.kind # "ok"
        THEN Outcome(msg, s.kind, "send", <<>>, NoVal, st, buf, <<>>, <<>>, <<>>)
        ELSE IF r.kind # "ok"
        THEN Outcome(msg, r.kind, "read", <<>>, NoVal, None, r.rest, s.wire,
                     buf \o arr, r.log)
        ELSE Outcome(msg, "ok", "done", r.body, StrVal, r.status, r.rest, s.wire,
                     buf \o arr, r.log)

\* query() writing the request again when the reply does not come
query_resend(msg, st, buf, arr) ==
    LET s == send(msg)
        r == read(buf \o arr)
    IN  IF s.kind # "ok"
        THEN Outcome(msg, s.kind, "send", <<>>, NoVal, st, buf, <<>>, <<>>, <<>>)
        ELSE IF r.kind # "ok"
        THEN Outcome(msg, r.kind, "read", <<>>, NoVal, st, r.rest,
                     IF r.kind = "Timeout" THEN s.wire \o s.wire ELSE s.wire,
                     buf \o arr, r.log)
        ELSE Outcome(msg, "ok", "done", r.body, StrVal, r.status, r.rest, s.wire,
                     buf \o arr, r.log)

query(msg, st, buf, arr) ==
    LET s == send(msg)
        r == read(buf \o arr)
    IN  IF s.kind # "ok"
        THEN Outcome(msg, s.kind, "send", <<>>, NoVal, st, buf, <<>>, <<>>, <<>>)
        ELSE IF r.kind # "ok"
        THEN Outcome(msg, r.kind, "read", <<>>, NoVal, st, r.rest, s.wire,
                     buf \o arr, r.log)
        ELSE Outcome(msg, "ok", "done", r.body, StrVal, r.status, r.rest, s.wire,
                     buf \o arr, r.log)

(***************************************************************************)
(* Python text parsing: str.strip() whitespace, int(), float(), split.     *)
(* Values are exact decimals (mantissa, exponent); rounding to a double    *)
(* and the double's range are not modelled.                                *)
(***************************************************************************)
Whitespace == {9, 10, 11, 12, 13, 32, 133, 160}
Digits == 48..57
Signs == {43, 45}            \* '+' '-'

RECURSIVE LStrip(_)
LStrip(s) == IF s # <<>> /\ Head(s) \in Whitespace THEN LStrip(Tail(s)) ELSE s

RECURSIVE RStrip(_)
RStrip(s) ==
    IF s # <<>> /\ s[Len(s)] \in Whitespace THEN RStrip(Take(s, Len(s) - 1)) ELSE s

Strip(s) == RStrip(LStrip(s))

\* index of the first element of s in S, 0 when there is none
FirstIndex(s, S) ==
    IF \E i \in 1..Len(s) : s[i] \in S
    THEN CHOOSE i \in 1..Len(s) : s[i] \in S /\ \A j \in 1..(i - 1) : s[j] \notin S
    ELSE 0

Count(s, c) == Cardinality({i \in 1..Len(s) : s[i] = c})

\* digits, single underscores allowed between two digits
IsDigitPart(s) ==
    /\ s # <<>>
    /\ \A i \in 1..Len(s) : s[i] \in Digits \cup {95}
    /\ s[1] \in Digits
    /\ s[Len(s)] \in Digits
    /\ \A i \in 1..(Len(s) - 1) : ~(s[i] = 95 /\ s[i + 1] = 95)

RECURSIVE DigitsValue(_)
DigitsValue(s) ==
    IF s = <<>> THEN 0
    ELSE IF s[Len(s)] = 95 THEN DigitsValue(Take(s, Len(s) - 1))
    ELSE 10 * DigitsValue(Take(s, Len(s) - 1)) + (s[Len(s)] - 48)

NumDigits(s) == Cardinality({i \in 1..Len(s) : s[i] \in Digits})

Unsigned(s) == IF s # <<>> /\ Head(s) \in Signs THEN Tail(s) ELSE s
SignOf(s) == IF s # <<>> /\ Head(s) = 45 THEN -1 ELSE 1

\* int(text): [ok, n]
int_parse(text) ==
    LET s == Strip(text)
        u == Unsigned(s)
    IN  IF IsDigitPart(u) THEN [ok |-> TRUE, n |-> SignOf(s) * DigitsValue(u)]
        ELSE [ok |-> FALSE, n |-> 0]

Lower(s) == [i \in 1..Len(s) |-> IF s[i] \in 65..90 THEN s[i] + 32 ELSE s[i]]

RECURSIVE Normal(_, _)
Normal(m, x) ==
    IF m = 0 THEN FloatVal(0, 0)
    ELSE IF m % 10 = 0 THEN Normal(m \div 10, x + 1)
    ELSE FloatVal(m, x)

\* float(text): [ok, val]
float_parse(text) ==
    LET s == Strip(text)
        u == Unsigned(s)
        l == Lower(u)
        epos == FirstIndex(u, {101, 69})
        mant == IF epos = 0 THEN u ELSE Take(u, epos - 1)
        exps == IF epos = 0 THEN <<>> ELSE Drop(u, epos)
        dot == FirstIndex(mant, {46})
        ip == IF dot = 0 THEN mant ELSE Take(mant, dot - 1)
        fp == IF dot = 0 THEN <<>> ELSE Drop(mant, dot)
        mantOk == IF dot = 0 THEN IsDigitPart(mant)
                  ELSE /\ (ip = <<>> \/ IsDigitPart(ip))
                       /\ (fp = <<>> \/ IsDigitPart(fp))
                       /\ ~(ip = <<>> /\ fp = <<>>)
        expOk == epos = 0 \/ IsDigitPart(Unsigned(exps))
        m == SignOf(s) * (DigitsValue(ip \o fp))
        x == (IF epos = 0 THEN 0 ELSE SignOf(exps) * DigitsValue(Unsigned(exps)))
             - NumDigits(fp)
    IN  IF l \in {<<105, 110, 102>>, <<105, 110, 102, 105, 110, 105, 116, 121>>}
        THEN [ok |-> TRUE, val |-> [t |-> "inf", n |-> SignOf(s), e |-> 0, b |-> FALSE]]
        ELSE IF l = <<110, 97, 110>> THEN [ok |-> TRUE, val |-> NanVal]
        ELSE IF mantOk /\ expOk THEN [ok |-> TRUE, val |-> Normal(m, x)]
        ELSE [ok |-> FALSE, val |-> NoVal]

\* Python's "a in b" for two strings: a is a substring of b
IsSubstring(a, b) ==
    \E i \in 0..(Len(b) - Len(a)) : SubSeq(b, i + 1, i + Len(a)) = a

Fails(q, kind) == [q EXCEPT !.kind = kind, !.stage = "parse", !.val = NoVal]
Returns(q, val) == [q EXCEPT !.val = val]

(***************************************************************************)
(* STM100._query_float, STM100._query_bool, STM100.timer                   *)
(* "except ValueError" in _query_float also catches what query() itself    *)
(* raises: UnicodeDecodeError is a subclass of ValueError.                 *)
(***************************************************************************)
ValueErrors == {"ValueError", "UnicodeDecodeError"}

query_float_raising(cmd, st, buf, arr) ==
    LET q == query(cmd, st, buf, arr)
        f == float_parse(q.body)
    IN  IF q.kind # "ok" THEN q
        ELSE IF f.ok THEN Returns(q, f.val)
        ELSE Fails(q, "ValueError")

query_float(cmd, st, buf, arr) ==
    LET q == query(cmd, st, buf, arr)
        f == float_parse(q.body)
    IN  IF q.kind \in ValueErrors THEN [q EXCEPT !.kind = "ok", !.val = NanVal]
        ELSE IF q.kind # "ok" THEN q
        ELSE IF f.ok THEN Returns(q, f.val)
        ELSE Returns(q, NanVal)

\* _query_bool losing the status of a reply it rejects
query_bool_stale(cmd, st, buf, arr) ==
    LET q == query(cmd, st, buf, arr)
    IN  IF q.kind # "ok" THEN q
        ELSE IF ~IsSubstring(q.body, <<33, 64>>)
             THEN [Fails(q, "AssertionError") EXCEPT !.statuscode = st]
        ELSE Returns(q, BoolVal(q.body = <<33>>))

query_bool(cmd, st, buf, arr) ==
    LET q == query(cmd, st, buf, arr)
    IN  IF q.kind # "ok" THEN q
        ELSE IF ~IsSubstring(q.body, <<33, 64>>) THEN Fails(q, "AssertionError")
        ELSE Returns(q, BoolVal(q.body = <<33>>))

\* timer counting 100 seconds to the minute
timer_centesimal(st, buf, arr) ==
    LET q == query(<<87>>, st, buf, arr)
        ans == q.body
        colon == FirstIndex(ans, {58})
        minutes == int_parse(Take(ans, colon - 1))
        seconds == int_parse(Drop(ans, colon))
    IN  IF q.kind # "ok" THEN q
        ELSE IF ans = <<>> THEN Fails(q, "IndexError")
        ELSE IF ans[1] = 62 THEN Returns(q, NanVal)
        ELSE IF Count(ans, 58) # 1 THEN Fails(q, "ValueError")
        ELSE IF ~minutes.ok \/ ~seconds.ok THEN Fails(q, "ValueError")
        ELSE Returns(q, IntVal(100 * minutes.n + seconds.n))

timer(st, buf, arr) ==
    LET q == query(<<87>>, st, buf, arr)
        ans == q.body
        colon == FirstIndex(ans, {58})
        minutes == int_parse(Take(ans, colon - 1))
        seconds == int_parse(Drop(ans, colon))
    IN  IF q.kind # "ok" THEN q
        ELSE IF ans = <<>> THEN Fails(q, "IndexError")
        ELSE IF ans[1] = 62 THEN Returns(q, NanVal)
        ELSE IF Count(ans, 58) # 1 THEN Fails(q, "ValueError")
        ELSE IF ~minutes.ok \/ ~seconds.ok THEN Fails(q, "ValueError")
        ELSE Returns(q, IntVal(60 * minutes.n + seconds.n))

(***************************************************************************)
(* The accessors' commands.                                                *)
(***************************************************************************)
BoolGetters == {"testmode", "shutter", "setpoint_reached", "crystal_fail"}
BoolSetters == {"testmode", "shutter"}
FloatGetters == {"thickness", "setpoint", "rate", "density", "zfactor", "tooling",
                 "frequency", "lifetime"}

GetCmd(name) ==
    CASE name = "model" -> <<64>>
      [] name = "testmode" -> <<75, 63>>
      [] name = "shutter" -> <<65, 63>>
      [] name = "setpoint_reached" -> <<80>>
      [] name = "crystal_fail" -> <<77>>
      [] name = "thickness" -> <<83>>
      [] name = "setpoint" -> <<71, 63>>
      [] name = "rate" -> <<84>>
      [] name = "density" -> <<69, 63>>
      [] name = "zfactor" -> <<70, 63>>
      [] name = "tooling" -> <<74, 63>>
      [] name = "frequency" -> <<85>>
      [] name = "lifetime" -> <<86>>

\* testmode.setter, shutter.setter: 'K' or 'A', then '!' or '@'
SetBoolCmd(name, enable) ==
    <<IF name = "testmode" THEN 75 ELSE 65, IF enable THEN 33 ELSE 64>>

\* a setter returns nothing; the reply's body is dropped
set_bool(name, enable, st, buf, arr) ==
    LET q == query(SetBoolCmd(name, enable), st, buf, arr)
    IN  [q EXCEPT !.val = NoVal]

(***************************************************************************)
(* Number formatting of the setters' f-strings.  A numeric argument is the *)
(* decimal n / 10^d, written Dec(n, d); the arguments of the model have no *)
(* more decimals than the format prints, so no rounding takes place, and a *)
(* comparison with a bound is the comparison of the decimals.              *)
(***************************************************************************)
Dec(n, d) == [n |-> n, d |-> d]

RECURSIVE Pow10(_)
Pow10(d) == IF d = 0 THEN 1 ELSE 10 * Pow10(d - 1)

Le(v, w) == v.n * Pow10(w.d) <= w.n * Pow10(v.d)

RECURSIVE IntDigits(_)
IntDigits(n) == IF n < 10 THEN <<48 + n>> ELSE IntDigits(n \div 10) \o <<48 + (n % 10)>>

RECURSIVE PadDigits(_, _)
PadDigits(n, d) == IF d = 0 THEN <<>> ELSE PadDigits(n \div 10, d - 1) \o <<48 + (n % 10)>>

\* f"{int(value):d}": int() truncates towards zero
FormatInt(v) ==
    LET a == IF v.n < 0 THEN -v.n ELSE v.n
        q == a \div Pow10(v.d)
    IN  (IF v.n < 0 /\ q > 0 THEN <<45>> ELSE <<>>) \o IntDigits(q)

\* f"{value:.df}" for a value of at most d decimals
FormatFixed(v, d) ==
    LET a == (IF v.n < 0 THEN -v.n ELSE v.n) * Pow10(d - v.d)
    IN  (IF v.n < 0 THEN <<45>> ELSE <<>>)
        \o IntDigits(a \div Pow10(d)) \o <<46>> \o PadDigits(a % Pow10(d), d)

\* a failed check of the arguments: nothing was sent, nothing read
Rejected(kind, st, buf) ==
    Outcome(<<>>, kind, "check", <<>>, NoVal, st, buf, <<>>, <<>>, <<>>)

(***************************************************************************)
(* The numeric setters: setpoint, density and tooling assert their range,  *)
(* zfactor does not.                                                       *)
(***************************************************************************)
set_setpoint_exclusive(value, st, buf, arr) ==
    IF ~(Le(Dec(0, 0), value) /\ Le(value, Dec(9999998, 0)))
    THEN Rejected("AssertionError", st, buf)
    ELSE Returns(query(<<71, 61>> \o FormatInt(value), st, buf, arr), NoVal)

set_setpoint(value, st, buf, arr) ==
    IF ~(Le(Dec(0, 0), value) /\ Le(value, Dec(9999999, 0)))
    THEN Rejected("AssertionError", st, buf)
    ELSE Returns(query(<<71, 61>> \o FormatInt(value), st, buf, arr), NoVal)

set_density(value, st, buf, arr) ==
    IF ~(Le(Dec(5, 1), value) /\ Le(value, Dec(9999, 2)))
    THEN Rejected("AssertionError", st, buf)
    ELSE Returns(query(<<69, 61>> \o FormatFixed(value, 3), st, buf, arr), NoVal)

set_zfactor(value, st, buf, arr) ==
    Returns(query(<<70, 61>> \o FormatFixed(value, 3), st, buf, arr), NoVal)

set_tooling(value, st, buf, arr) ==
    IF ~(Le(Dec(10, 0), value) /\ Le(value, Dec(399, 0)))
    THEN Rejected("AssertionError", st, buf)
    ELSE Returns(query(<<74, 61>> \o FormatFixed(value, 1), st, buf, arr), NoVal)

FloatSetters == {"setpoint", "density", "zfactor", "tooling"}

(***************************************************************************)
(* STM100.poweron_status: ord() of the body, which must be one character   *)
(* (TypeError otherwise); bool(ans & i) for i = 1, 2, 4.                   *)
(***************************************************************************)
BitAnd(ans, i) == IF (ans \div i) % 2 = 1 THEN i ELSE 0     \* i a power of 2

poweron_status(st, buf, arr) ==
    LET q == query(<<97>>, st, buf, arr)
    IN  IF q.kind # "ok" THEN q
        ELSE IF Len(q.body) # 1 THEN Fails(q, "TypeError")
        ELSE Returns(q, FlagsVal([k \in 1..3 |-> BitAnd(q.body[1], <<1, 2, 4>>[k]) # 0]))

\* STM100.reset_poweron_status
reset_poweron_status(st, buf, arr) == Returns(query(<<76>>, st, buf, arr), NoVal)

(***************************************************************************)
(* STM100.zero(what): what is text.                                        *)
(***************************************************************************)
Both == <<98, 111, 116, 104>>                            \* "both"
Thickness == <<116, 104, 105, 99, 107, 110, 101, 115, 115>>  \* "thickness"
Timer == <<116, 105, 109, 101, 114>>                     \* "timer"

zero_lenient(what, st, buf, arr) ==
    IF what = Thickness THEN Returns(query(<<67>>, st, buf, arr), NoVal)
    ELSE IF what = Timer THEN Returns(query(<<68>>, st, buf, arr), NoVal)
    ELSE Returns(query(<<66>>, st, buf, arr), NoVal)

zero(what, st, buf, arr) ==
    IF what = Both THEN Returns(query(<<66>>, st, buf, arr), NoVal)
    ELSE IF what = Thickness THEN Returns(query(<<67>>, st, buf, arr), NoVal)
    ELSE IF what = Timer THEN Returns(query(<<68>>, st, buf, arr), NoVal)
    ELSE Rejected("ValueError", st, buf)

set_float(name, value, st, buf, arr) ==
    CASE name = "setpoint" -> set_setpoint(value, st, buf, arr)
      [] name = "density" -> set_density(value, st, buf, arr)
      [] name = "zfactor" -> set_zfactor(value, st, buf, arr)
      [] name = "tooling" -> set_tooling(value, st, buf, arr)

(***************************************************************************)
(* A reply stream that _read() decodes: start byte, length n >= 1, n       *)
(* payload bytes that are UTF-8 text, a checksum byte.                     *)
(***************************************************************************)
HasFrame(stream) ==
    /\ Len(stream) >= 3
    /\ stream[1] = STX
    /\ Len(stream) >= 3 + stream[2]

Payload(stream) == SubSeq(stream, 3, 2 + stream[2])

Decodes(stream) ==
    /\ HasFrame(stream)
    /\ stream[2] >= 1
    /\ utf8_decode(Payload(stream)).ok

(***************************************************************************)
(* A call's outcome becomes the state.                                     *)
(***************************************************************************)
Effects(op, r) ==
    /\ statuscode' = r.statuscode
    /\ inbuf' = r.inbuf
    /\ wire' = r.wire
    /\ rx' = r.rx
    /\ log' = r.log
    /\ ret' = [op |-> op, cmd |-> r.cmd, kind |-> r.kind, stage |-> r.stage,
               body |-> r.body, val |-> r.val, prev |-> <<ret.kind, ret.stage>>]
    /\ decoded' = IF Decodes(r.rx) THEN Head(utf8_decode(Payload(r.rx)).s)
                  ELSE decoded

\* a call that is neither films nor close()
Commit(op, r) ==
    /\ Effects(op, r)
    /\ UNCHANGED <<films, fpc, row, closes>>

\* Between two calls: of the last call it is remembered only whether it
\* failed on an assert or on a missing start byte.
Remembered == {"AssertionError", "RuntimeError"}

IdleRet(kind, stage) ==
    [op |-> "idle", cmd |-> <<>>, kind |-> kind, stage |-> stage,
     body |-> <<>>, val |-> NoVal, prev |-> <<"ok", "done">>]

InitRet == IdleRet("ok", "done")

\* STM100._films: None after __init__, a list once query_films ran
NoFilms == [cached |-> FALSE, rows |-> <<>>]
FilmList(rows) == [cached |-> TRUE, rows |-> rows]

Idle == ret.op = "idle"

\* inside query_films: between two of its queries
InFilms == ret.op = "films" /\ ret.stage = "run"

(***************************************************************************)
(* Loopback specification: query(arg) on a transport that echoes every     *)
(* written byte, for every command arg over CmdAlphabet of length          *)
(* 0..CmdLenBound, the read buffer empty or holding one stale byte.        *)
(***************************************************************************)
Commands == SeqsUpTo(CmdAlphabet, CmdLenBound)

StaleBufs == {<<>>, <<65>>}

InitCodec ==
    /\ statuscode = None
    /\ inbuf \in StaleBufs
    /\ wire = <<>>
    /\ rx = <<>>
    /\ log = <<>>
    /\ ret = InitRet
    /\ decoded = None
    /\ arg \in Commands
    /\ films = NoFilms
    /\ fpc = -1
    /\ row = <<>>
    /\ closes = 0

QueryEcho ==
    /\ Idle
    /\ Commit("query", query(arg, statuscode, inbuf, send(arg).wire))
    /\ UNCHANGED arg

NextCodec == QueryEcho

SpecCodec == InitCodec /\ [][NextCodec]_vars

(***************************************************************************)
(* Session specification: any sequence of accessor calls, each answered    *)
(* by one of the byte streams of Arrivals.                                 *)
(***************************************************************************)
Frame(payload, chk) == <<STX, Len(payload)>> \o payload \o <<chk>>
GoodFrame(payload) == Frame(payload, SumSeq(payload) % 256)
BadFrame(payload) == Frame(payload, (SumSeq(payload) + 1) % 256)

\* status character 'A' or 'B', then the body
ReplyPayloads ==
    { <<65>>,                                  \* "A"   empty body
      <<65, 33>>,                              \* "A!"
      <<66, 64>>,                              \* "B@"
      <<65, 33, 64>>,                          \* "A!@"
      <<65, 88>>,                              \* "AX"
      <<65, 48, 49, 58, 51, 48>>,              \* "A01:30"
      <<66, 62>>,                              \* "B>"
      <<65, 62, 57, 57>>,                      \* "A>99"
      <<65, 98, 97, 100, 116, 101, 120, 116>>, \* "Abadtext"
      <<65, 49, 58, 50, 58, 51>>,              \* "A1:2:3"
      <<65, 49, 58, 120>>,                     \* "A1:x"
      <<66, 49, 50, 46, 53>>,                  \* "B12.5"
      <<65, 195, 169>>,                        \* 'A', then U+00E9 in UTF-8
      <<65, 233>> }                            \* 'A', then a byte that is no UTF-8

Arrivals ==
    {GoodFrame(p) : p \in ReplyPayloads}
    \cup {BadFrame(p) : p \in ReplyPayloads}
    \cup { <<>>,                  \* no reply
           <<2>>,                 \* the reply stops after the start byte
           <<2, 3, 65>>,          \* ... in the payload
           <<2, 1, 65>>,          \* ... before the checksum
           <<2, 0, 0>>,           \* length byte 0
           <<2, 0, 7>>,
           <<65>>,                \* no start byte
           <<13, 2>>,             \* a stray byte, then a start byte
           <<13, 2, 1, 65, 65>>,  \* a stray byte, then a frame
           <<200, 65>>,           \* a first byte of 0x80 or above
           Frame(<<65, 195, 169>>, 42),  \* checksum = sum of the code points
           GoodFrame(<<65, 33>>) \o <<66>>,  \* a frame, then a stray byte
           GoodFrame(<<66, 64>>) \o <<2>> }

RawCmds == {<<76>>, [i \in 1..11 |-> 75]}

\* the replies to a command that asks for nothing: an acknowledgement, no
\* reply, a byte that is no start byte
AckArrivals == {GoodFrame(<<65>>), <<>>, <<65>>}

\* replies to the power-on status query: status 'A' and one raw byte
StatusBytes == 0..127 \cup {128, 233, 255}

StatusArrivals ==
    {GoodFrame(<<65, b>>) : b \in StatusBytes}
    \cup {GoodFrame(<<65, 195, 169>>), GoodFrame(<<65, 52, 50>>)} \cup AckArrivals

\* arguments of zero(): the three targets, "Both", "all", ""
ZeroArgs == {Both, Thickness, Timer, <<66, 111, 116, 104>>, <<97, 108, 108>>, <<>>}

\* arguments of the numeric setters: at, inside and outside the bounds
FloatArgs(name) ==
    CASE name = "setpoint" -> {Dec(-1, 0), Dec(0, 0), Dec(5000, 0), Dec(50007, 1),
                               Dec(9999999, 0), Dec(99999995, 1), Dec(10000000, 0)}
      [] name = "density" -> {Dec(499, 3), Dec(5, 1), Dec(125, 1), Dec(9999, 2),
                              Dec(99991, 3), Dec(100, 0)}
      [] name = "zfactor" -> {Dec(1, 0), Dec(-1500, 3), Dec(1000000, 0)}
      [] name = "tooling" -> {Dec(99, 1), Dec(10, 0), Dec(1255, 1), Dec(399, 0),
                              Dec(3991, 1)}

Init ==
    /\ statuscode = None
    /\ inbuf = <<>>
    /\ wire = <<>>
    /\ rx = <<>>
    /\ log = <<>>
    /\ ret = InitRet
    /\ decoded = None
    /\ arg = <<>>
    /\ films = NoFilms
    /\ fpc = -1
    /\ row = <<>>
    /\ closes = 0

\* A call starts with at most MaxStale unread bytes, or with the late rest
\* of the reply to the call before it.  Nothing arrives on a closed port.
Fits(arr) ==
    /\ Idle
    /\ Len(inbuf) <= MaxStale \/ ret.kind = "Late"
    /\ closes > 0 => arr = <<>>

\* query(msg), the raw escape hatch
Query(cmd, arr) ==
    /\ Fits(arr)
    /\ Commit("query", query(cmd, statuscode, inbuf, arr))
    /\ UNCHANGED arg

\* STM100.model
Model(arr) ==
    /\ Fits(arr)
    /\ Commit("model", query(GetCmd("model"), statuscode, inbuf, arr))
    /\ UNCHANGED arg

\* testmode, shutter, setpoint_reached, crystal_fail
GetBool(name, arr) ==
    /\ Fits(arr)
    /\ Commit(name, query_bool(GetCmd(name), statuscode, inbuf, arr))
    /\ UNCHANGED arg

\* thickness, setpoint, rate, density, zfactor, tooling, frequency, lifetime
GetFloat(name, arr) ==
    /\ Fits(arr)
    /\ Commit(name, query_float(GetCmd(name), statuscode, inbuf, arr))
    /\ UNCHANGED arg

\* STM100.timer
GetTimer(arr) ==
    /\ Fits(arr)
    /\ Commit("timer", timer(statuscode, inbuf, arr))
    /\ UNCHANGED arg

\* testmode.setter, shutter.setter
SetBool(name, enable, arr) ==
    /\ Fits(arr)
    /\ Commit("set_" \o name, set_bool(name, enable, statuscode, inbuf, arr))
    /\ UNCHANGED arg

\* setpoint.setter, density.setter, zfactor.setter, tooling.setter;
\* arg records the argument as <<n, d>>
SetFloat(name, value, arr) ==
    /\ Fits(arr)
    /\ Commit("set_" \o name, set_float(name, value, statuscode, inbuf, arr))
    /\ arg' = <<value.n, value.d>>

\* STM100.poweron_status; the status bytes are tried on an empty read buffer
PowerOn(arr) ==
    /\ Fits(arr)
    /\ inbuf = <<>> \/ arr \in AckArrivals
    /\ Commit("poweron_status", poweron_status(statuscode, inbuf, arr))
    /\ UNCHANGED arg

\* STM100.reset_poweron_status
ResetPowerOn(arr) ==
    /\ Fits(arr)
    /\ Commit("reset_poweron_status", reset_poweron_status(statuscode, inbuf, arr))
    /\ UNCHANGED arg

\* zero(what); arg records what
Zero(what, arr) ==
    /\ Fits(arr)
    /\ Commit("zero", zero(what, statuscode, inbuf, arr))
    /\ arg' = what

\* STM100.close: inst.close() and rm.close(), whatever the state of the
\* session; pyvisa's close() of a resource that is closed already returns
\* silently.  The port's buffered input goes with the first close.
Close ==
    /\ Idle
    /\ closes < MaxCloses
    /\ closes' = closes + 1
    /\ inbuf' = <<>>
    /\ ret' = [op |-> "close", cmd |-> <<>>, kind |-> "ok", stage |-> "done",
               body |-> <<>>, val |-> NoVal, prev |-> <<ret.kind, ret.stage>>]
    /\ UNCHANGED <<statuscode, wire, rx, log, decoded, arg, films, fpc, row>>

\* The caller takes the result; the next call may follow.
Return ==
    /\ ~Idle
    /\ ~InFilms
    /\ ret' = IF ret.kind \in Remembered THEN IdleRet(ret.kind, ret.stage) ELSE InitRet
    /\ wire' = <<>>
    /\ rx' = <<>>
    /\ log' = <<>>
    /\ fpc' = -1
    /\ row' = <<>>
    /\ arg' = <<>>
    /\ UNCHANGED <<statuscode, inbuf, decoded, films, closes>>

Calls ==
    \E arr \in Arrivals :
        \/ \E cmd \in RawCmds : Query(cmd, arr)
        \/ Model(arr)
        \/ \E name \in BoolGetters : GetBool(name, arr)
        \/ \E name \in FloatGetters : GetFloat(name, arr)
        \/ GetTimer(arr)
        \/ \E name \in BoolSetters, enable \in BOOLEAN : SetBool(name, enable, arr)

Commands2 ==
    \E arr \in AckArrivals :
        \/ \E name \in FloatSetters : \E value \in FloatArgs(name) :
               SetFloat(name, value, arr)
        \/ \E what \in ZeroArgs : Zero(what, arr)
        \/ ResetPowerOn(arr)

PowerOns == \E arr \in StatusArrivals : PowerOn(arr)

\* The instrument's replies that may come late, and what is still to come
\* of them after the bytes of stream
LateFrames == {GoodFrame(<<66, 64>>), GoodFrame(<<65>>)}

Remainders(stream) ==
    {Drop(f, Len(stream)) : f \in {g \in LateFrames : Len(g) > Len(stream)
                                                      /\ Take(g, Len(stream)) = stream}}

\* The call timed out (read_bytes raised after 200 ms) and the caller has
\* the error; the rest of the reply arrives before the next call.
ReturnLate(bytes) ==
    /\ ~Idle
    /\ ~InFilms
    /\ closes = 0
    /\ ret.kind = "Timeout"
    /\ inbuf' = inbuf \o bytes
    /\ ret' = IdleRet("Late", ret.stage)
    /\ wire' = <<>>
    /\ rx' = <<>>
    /\ log' = <<>>
    /\ fpc' = -1
    /\ row' = <<>>
    /\ arg' = <<>>
    /\ UNCHANGED <<statuscode, decoded, films, closes>>

Lates == \E bytes \in Remainders(rx) : ReturnLate(bytes)

Next == Calls \/ Commands2 \/ PowerOns \/ Close \/ Return \/ Lates

Spec == Init /\ [][Next]_vars

(***************************************************************************)
(* Film-table specification: films (query_films) taken one query at a      *)
(* time, between calls of the float getters and of query().  The           *)
(* instrument answers the query of a slot parameter with the stored value, *)
(* here "<slot>.<1, 2 or 3>"; it may answer j1? with text that is no       *)
(* number; any reply may fail to come or start with a stray byte.          *)
(***************************************************************************)
FilmParams == <<"density", "zfactor", "tooling">>
FilmLetters == <<106, 107, 111>>          \* 'j' 'k' 'o'
FilmSlots == 9                            \* range(1, 10)
FilmQueries == FilmSlots * Len(FilmParams)

\* the command of the k-th query (k from 0) of query_films
FilmCmd_slot0(k) == <<FilmLetters[(k % 3) + 1], 48 + (k \div 3), 63>>

FilmCmd(k) == <<FilmLetters[(k % 3) + 1], 49 + (k \div 3), 63>>

FilmReply(cmd) ==
    GoodFrame(<<65, cmd[2], 46, 49 + (CHOOSE i \in 1..3 : FilmLetters[i] = cmd[1]) - 1>>)

FilmArrivals(cmd) ==
    {FilmReply(cmd), <<>>, <<65>>}
    \cup (IF cmd = <<106, 49, 63>> THEN {GoodFrame(<<65, 88>>)} ELSE {})

FilmRecord(vals) == [density |-> vals[1], zfactor |-> vals[2], tooling |-> vals[3]]

\* query_films, lines 174-175
FilmsBegin ==
    /\ Idle
    /\ Len(inbuf) <= MaxStale
    /\ films' = FilmList(<<>>)
    /\ fpc' = 0
    /\ row' = <<>>
    /\ ret' = [op |-> "films", cmd |-> <<>>, kind |-> "ok", stage |-> "run",
               body |-> <<>>, val |-> NoVal, prev |-> <<ret.kind, ret.stage>>]
    /\ UNCHANGED <<statuscode, inbuf, wire, rx, log, decoded, arg, closes>>

\* query_films, lines 176-180: what the loop does with the outcome q of one
\* _query_float; a record is appended when its three values are there; an
\* exception ends the call
FilmsStep(q) ==
    LET vals == row \o <<q.val>>
        last == fpc + 1 = FilmQueries
    IN  IF q.kind # "ok"
        THEN /\ Effects("films", q)
             /\ row' = <<>>
             /\ UNCHANGED <<films, fpc>>
        ELSE /\ Effects("films", [q EXCEPT !.stage = IF last THEN "done" ELSE "run"])
             /\ fpc' = fpc + 1
             /\ row' = IF Len(vals) = Len(FilmParams) THEN <<>> ELSE vals
             /\ films' = IF Len(vals) = Len(FilmParams)
                         THEN FilmList(films.rows \o <<FilmRecord(vals)>>)
                         ELSE films

\* query_films, lines 176-180: the next _query_float of the loop
FilmsQuery(arr) ==
    /\ InFilms
    /\ FilmsStep(query_float(FilmCmd(fpc), statuscode, inbuf, arr))
    /\ UNCHANGED <<arg, closes>>

\* replies to a float getter
FloatArrivals ==
    { GoodFrame(<<66, 49, 50, 46, 53>>),   \* "B12.5"
      BadFrame(<<66, 49, 50, 46, 53>>),
      GoodFrame(<<65, 88>>),               \* "AX"
      GoodFrame(<<65>>),                   \* "A"    empty body
      GoodFrame(<<66, 105, 110, 102>>),    \* "Binf"
      GoodFrame(<<65, 49, 101, 51>>),      \* "A1e3"
      GoodFrame(<<65, 233>>),              \* a body that is no UTF-8
      <<2, 0, 0>>,                         \* length byte 0
      <<>>, <<65>>, <<200, 65>> }

NextFilms ==
    \/ FilmsBegin
    \/ \E arr \in FilmArrivals(FilmCmd(fpc)) : FilmsQuery(arr)
    \/ \E name \in FloatGetters, arr \in FloatArrivals : GetFloat(name, arr)
    \/ \E cmd \in RawCmds, arr \in AckArrivals : Query(cmd, arr)
    \/ Return

SpecFilms == Init /\ [][NextFilms]_vars

(***************************************************************************)
(* C1: for every command of length 0..10, _send writes exactly one frame:  *)
(* 0x02, the length, the command's bytes in order, and one checksum byte   *)
(* equal to the sum of the command's bytes modulo 256 (0 for the empty     *)
(* command); nothing else is written.                                      *)
(***************************************************************************)
C1_FrameWritten ==
    (ret.op = "query" /\ Len(ret.cmd) <= 10) =>
        /\ Len(wire) = Len(ret.cmd) + 3
        /\ wire[1] = 2
        /\ wire[2] = Len(ret.cmd)
        /\ \A i \in 1..Len(ret.cmd) : wire[i + 2] = ret.cmd[i]
        /\ wire[Len(wire)] = SumSeq(ret.cmd) % 256
        /\ wire[Len(wire)] \in 0..255
        /\ (ret.cmd = <<>> => wire = <<2, 0, 0>>)

C1_Witness ==
    /\ ret.op = "query"
    /\ Len(ret.cmd) = 10
    /\ SumSeq(ret.cmd) > 255
    /\ Len(wire) = 13

(***************************************************************************)
(* C2: round trip.  For every command of length 0..10, the empty one       *)
(* included, decoding the bytes _send produced succeeds, the checksum      *)
(* verifies (nothing is logged), and status followed by body is the        *)
(* command.                                                                *)
(***************************************************************************)
C2_RoundTrip ==
    (ret.op = "query" /\ Len(ret.cmd) <= 10 /\ rx = wire) =>
        /\ ret.kind = "ok"
        /\ log = <<>>
        /\ <<statuscode>> \o ret.body = ret.cmd

\* The round trip of the non-empty commands, which the code does perform.
C2_RoundTripNonEmpty ==
    (ret.op = "query" /\ Len(ret.cmd) \in 1..10 /\ rx = wire) =>
        /\ ret.kind = "ok"
        /\ log = <<>>
        /\ <<statuscode>> \o ret.body = ret.cmd

(***************************************************************************)
(* C3: a command of length 11 or more fails in _send (ValueError, the      *)
(* spec's CommandTooLong); no byte is written and none is read (the read   *)
(* buffer is as before); a command of length exactly 10 is written.        *)
(***************************************************************************)
C3_TooLong ==
    [][(ret'.op = "query" /\ Idle) =>
         /\ (Len(ret'.cmd) >= 11 =>
                /\ ret'.kind = "ValueError"
                /\ ret'.stage = "send"
                /\ wire' = <<>>
                /\ rx' = <<>>
                /\ inbuf' = inbuf
                /\ statuscode' = statuscode)
         /\ (Len(ret'.cmd) = 10 =>
                /\ ret'.stage # "send"
                /\ Len(wire') = 13
                /\ Take(wire', 2) = <<2, 10>>)]_vars

C3_Witness ==
    /\ ret.op = "query"
    /\ Len(ret.cmd) = 11
    /\ ret.kind = "ValueError"
    /\ inbuf # <<>>

(***************************************************************************)
(* Claims on the session specification.  In the state after a call, rx is  *)
(* the stream _read() saw, ret the outcome; ret.stage is "send" or "read"  *)
(* when query() failed there, "parse" when an accessor rejected the body,  *)
(* "done" otherwise.                                                       *)
(***************************************************************************)
Text(stream) == utf8_decode(Payload(stream)).s
Checksum(stream) == stream[3 + stream[2]]
NoStart(stream) == stream # <<>> /\ stream[1] # 2
PlainOps == {"query", "model"}
ReadRan == ~Idle /\ wire # <<>>

Mismatched(stream) ==
    /\ HasFrame(stream)
    /\ stream[2] >= 1
    /\ Checksum(stream) # SumSeq(Payload(stream)) % 256

WithChecksum(stream, c) == [stream EXCEPT ![3 + stream[2]] = c]

C6_EmptyPayloadAccepted ==
    (ReadRan /\ HasFrame(rx) /\ rx[2] = 0) =>
        /\ ret.stage \in {"done", "parse"}
        /\ ret.body = <<>>
        /\ ret.op \in PlainOps => ret.kind = "ok"

(***************************************************************************)
(* C7: a query whose reply cannot be decoded (timeout anywhere in the      *)
(* frame, missing start byte, any other failure of _read) leaves           *)
(* statuscode as it was before the call; statuscode changes only to the    *)
(* first character of a reply that was decoded in that call.               *)
(***************************************************************************)
C7_StaleStatus ==
    [][(Idle /\ ~Idle') =>
         /\ (wire' # <<>> /\ ~Decodes(rx')) => ret'.stage = "read"
         /\ ret'.stage \in {"send", "read"} => statuscode' = statuscode
         /\ statuscode' # statuscode =>
                /\ Decodes(rx')
                /\ statuscode' = Head(Text(rx'))]_vars

C7_Witness ==
    /\ ReadRan
    /\ ret.stage = "read"
    /\ ret.kind = "Timeout"
    /\ Len(rx) >= 2
    /\ statuscode = 66

(***************************************************************************)
(* C8: statuscode is always the first character of the most recently       *)
(* decoded reply frame (None while none was decoded), whatever the         *)
(* accessor made of the body: a float getter returning NaN, a boolean or   *)
(* timer getter failing on the body.  After such a failure the next call   *)
(* that receives a decodable frame decodes it and records its status.      *)
(***************************************************************************)
C8_StatusRetained ==
    /\ [](statuscode = decoded)
    /\ [][(Idle /\ ~Idle' /\ wire' # <<>> /\ Decodes(rx')) =>
            /\ ret'.stage \in {"done", "parse"}
            /\ statuscode' = Head(Text(rx'))
            /\ ret'.body = Tail(Text(rx'))]_vars

C8_Witness ==
    /\ ~Idle
    /\ ret.prev = <<"AssertionError", "parse">>
    /\ ret.op \in FloatGetters
    /\ ret.stage = "done"
    /\ ret.val = NanVal
    /\ statuscode = 65
    /\ decoded = 65

(***************************************************************************)
(* C9: a boolean getter returns TRUE for the body "!", FALSE for the body  *)
(* "@", and fails (AssertionError, the spec's UnexpectedResponse) for      *)
(* every other body, the empty body and "!@" included.                     *)
(***************************************************************************)
C9_BoolStrict ==
    (~Idle /\ ret.op \in BoolGetters /\ ret.stage \in {"done", "parse"}) =>
        /\ ret.body = <<33>> => (ret.kind = "ok" /\ ret.val = BoolVal(TRUE))
        /\ ret.body = <<64>> => (ret.kind = "ok" /\ ret.val = BoolVal(FALSE))
        /\ ret.body \notin {<<33>>, <<64>>} =>
               (ret.kind = "AssertionError" /\ ret.stage = "parse")

(***************************************************************************)
(* C10: the timer getter maps a body MM:SS (decimal digits) to             *)
(* 60*MM + SS ("01:30" gives 90), maps every body beginning with '>' to    *)
(* NaN, and fails on every other body that has no ':' or more than one,    *)
(* the empty body included (ValueError, or IndexError for the empty body:  *)
(* the spec's MalformedDuration).                                          *)
(***************************************************************************)
AllDigits(s) == s # <<>> /\ \A i \in 1..Len(s) : s[i] \in 48..57

RECURSIVE Decimal(_)
Decimal(s) == IF s = <<>> THEN 0 ELSE 10 * Decimal(Take(s, Len(s) - 1)) + s[Len(s)] - 48

C10_Timer ==
    (~Idle /\ ret.op = "timer" /\ ret.stage \in {"done", "parse"}) =>
        LET b == ret.body
            colons == {i \in 1..Len(b) : b[i] = 58}
        IN  /\ (b # <<>> /\ b[1] = 62) => (ret.kind = "ok" /\ ret.val = NanVal)
            /\ \A i \in colons :
                   (AllDigits(Take(b, i - 1)) /\ AllDigits(Drop(b, i))) =>
                       /\ ret.kind = "ok"
                       /\ ret.val = IntVal(60 * Decimal(Take(b, i - 1))
                                           + Decimal(Drop(b, i)))
            /\ b = <<48, 49, 58, 51, 48>> => ret.val = IntVal(90)
            /\ ((b = <<>> \/ b[1] # 62) /\ Cardinality(colons) # 1) =>
                   /\ ret.stage = "parse"
                   /\ ret.kind \in {"ValueError", "IndexError"}
                   /\ ret.val = NoVal

C10_Witness ==
    /\ ~Idle
    /\ ret.op = "timer"
    /\ ret.body = <<48, 49, 58, 51, 48>>
    /\ ret.kind = "ok"
    /\ ret.val = IntVal(90)

(***************************************************************************)
(* C11: while the session is open, a range-checked setter (setpoint in     *)
(* [0, 9999999], density in [0.5, 99.99], tooling in [10, 399]) called     *)
(* with a value outside its range fails (AssertionError, the spec's        *)
(* OutOfRange) without writing or reading a byte and without changing      *)
(* statuscode; called with a value inside the range, the bounds included,  *)
(* it performs exactly one exchange: one frame is written and one reply    *)
(* is read.  The command of an integer setpoint v is "G=" followed by the  *)
(* decimal digits of v (5000 gives "G=5000"); density 12.5 gives           *)
(* "E=12.500".                                                             *)
(***************************************************************************)
Checked == {"set_setpoint", "set_density", "set_tooling"}

\* lo <= (n / 10^d) * scale <= hi
Within(n, d, scale, lo, hi) == lo * Pow10(d) <= n * scale /\ n * scale <= hi * Pow10(d)

InsideRange(op, n, d) ==
    CASE op = "set_setpoint" -> Within(n, d, 1, 0, 9999999)
      [] op = "set_density" -> Within(n, d, 100, 50, 9999)
      [] op = "set_tooling" -> Within(n, d, 1, 10, 399)

C11_RangeChecked ==
    [][(Idle /\ closes = 0 /\ ret'.op \in Checked) =>
         LET n == arg'[1]
             d == arg'[2]
             cmd == ret'.cmd
         IN  IF ~InsideRange(ret'.op, n, d)
             THEN /\ ret'.kind = "AssertionError"
                  /\ wire' = <<>>
                  /\ rx' = <<>>
                  /\ inbuf' = inbuf
                  /\ statuscode' = statuscode
             ELSE /\ wire' = <<2, Len(cmd)>> \o cmd \o <<SumSeq(cmd) % 256>>
                  /\ ret'.stage \in {"read", "done"}
                  /\ \E arr \in AckArrivals : rx' = inbuf \o arr
                  /\ (ret'.op = "set_setpoint" /\ d = 0) =>
                         /\ Take(cmd, 2) = <<71, 61>>
                         /\ AllDigits(Drop(cmd, 2))
                         /\ Decimal(Drop(cmd, 2)) = n
                         /\ (Len(cmd) > 3 => cmd[3] # 48)
                  /\ (ret'.op = "set_setpoint" /\ n = 5000 /\ d = 0) =>
                         cmd = <<71, 61, 53, 48, 48, 48>>
                  /\ (ret'.op = "set_density" /\ n = 125 /\ d = 1) =>
                         cmd = <<69, 61, 49, 50, 46, 53, 48, 48>>]_vars

C11_Witness ==
    /\ ret.op = "set_setpoint"
    /\ arg = <<9999999, 0>>
    /\ ret.cmd = <<71, 61, 57, 57, 57, 57, 57, 57, 57>>
    /\ ret.stage = "done"
    /\ Len(wire) = 12

(***************************************************************************)
(* C12: when every exchange succeeds, one films call issues exactly 27     *)
(* queries, in the order j1?, k1?, o1?, j2?, k2?, o2?, ..., j9?, k9?, o9?  *)
(* (slots 1 to 9, no slot 0 and no slot 10), each one frame, and returns   *)
(* exactly 9 records; record i holds the values the instrument gave for    *)
(* the density, the z-factor and the tooling of slot i (NaN where the      *)
(* reply was no number).                                                   *)
(***************************************************************************)
FilmOrder ==
    << <<106, 49, 63>>, <<107, 49, 63>>, <<111, 49, 63>>,
       <<106, 50, 63>>, <<107, 50, 63>>, <<111, 50, 63>>,
       <<106, 51, 63>>, <<107, 51, 63>>, <<111, 51, 63>>,
       <<106, 52, 63>>, <<107, 52, 63>>, <<111, 52, 63>>,
       <<106, 53, 63>>, <<107, 53, 63>>, <<111, 53, 63>>,
       <<106, 54, 63>>, <<107, 54, 63>>, <<111, 54, 63>>,
       <<106, 55, 63>>, <<107, 55, 63>>, <<111, 55, 63>>,
       <<106, 56, 63>>, <<107, 56, 63>>, <<111, 56, 63>>,
       <<106, 57, 63>>, <<107, 57, 63>>, <<111, 57, 63>> >>

FilmsDone == ret.op = "films" /\ ret.stage = "done"

\* the value stored for parameter p (1, 2, 3) of slot i: "<i>.<p>"
Stored(i, p) == FloatVal(10 * i + p, -1)

C12_Films ==
    /\ [](FilmsDone =>
            /\ ret.kind = "ok"
            /\ fpc = 27
            /\ films.cached
            /\ Len(films.rows) = 9
            /\ \A i \in 1..9 :
                 /\ films.rows[i].density \in
                        (IF i = 1 THEN {Stored(1, 1), NanVal} ELSE {Stored(i, 1)})
                 /\ films.rows[i].zfactor = Stored(i, 2)
                 /\ films.rows[i].tooling = Stored(i, 3))
    /\ [][(InFilms /\ fpc' # -1) =>
            /\ ret'.cmd = FilmOrder[fpc + 1]
            /\ wire' = GoodFrame(ret'.cmd)
            /\ fpc' = IF ret'.kind = "ok" THEN fpc + 1 ELSE fpc
            /\ (ret'.kind = "ok") = (ret'.stage \in {"run", "done"})
            /\ (ret'.stage = "done") = (fpc' = 27)]_vars

C12_Witness ==
    /\ FilmsDone
    /\ fpc = 27
    /\ ret.cmd = <<111, 57, 63>>
    /\ Len(films.rows) = 9
    /\ films.rows[1].density = Stored(1, 1)
    /\ films.rows[9].tooling = Stored(9, 3)

(***************************************************************************)
(* C13: on an open session zero(what) sends exactly one command, "B" for   *)
(* what = "both", "C" for "thickness", "D" for "timer"; for every other    *)
(* what it fails (ValueError, the spec's InvalidArgument) before a byte is *)
(* written or read, and statuscode stays as it was.                        *)
(***************************************************************************)
C13_Zero ==
    [][(Idle /\ closes = 0 /\ ret'.op = "zero") =>
         LET what == arg'
             sends(c) == /\ ret'.cmd = <<c>>
                         /\ wire' = <<2, 1, c, c>>
                         /\ ret'.stage \in {"read", "done"}
                         /\ \E arr \in AckArrivals : rx' = inbuf \o arr
         IN  /\ what = <<98, 111, 116, 104>> => sends(66)
             /\ what = <<116, 104, 105, 99, 107, 110, 101, 115, 115>> => sends(67)
             /\ what = <<116, 105, 109, 101, 114>> => sends(68)
             /\ what \notin {<<98, 111, 116, 104>>, <<116, 105, 109, 101, 114>>,
                              <<116, 104, 105, 99, 107, 110, 101, 115, 115>>} =>
                    /\ ret'.kind = "ValueError"
                    /\ ret'.stage = "check"
                    /\ wire' = <<>>
                    /\ rx' = <<>>
                    /\ inbuf' = inbuf
                    /\ statuscode' = statuscode]_vars

C13_Witness ==
    /\ ret.op = "zero"
    /\ arg = <<97, 108, 108>>
    /\ ret.kind = "ValueError"
    /\ wire = <<>>
    /\ statuscode = 65
    /\ inbuf # <<>>

(***************************************************************************)
(* C14: after close(), every further call on the session (query, a getter, *)
(* a setter, zero, a second close()) fails with the closed-session error   *)
(* (pyvisa's InvalidSession, the spec's SessionClosed) and performs no     *)
(* write, no read and no close on the transport, so that the transport is  *)
(* closed exactly once.                                                    *)
(***************************************************************************)
C14_ClosedOnce ==
    [][(Idle /\ closes > 0 /\ ~Idle') =>
         /\ ret'.kind = "InvalidSession"
         /\ wire' = <<>>
         /\ rx' = <<>>
         /\ closes' = 1]_vars

(***************************************************************************)
(* C15 (as stated): a float getter, a film-slot query included, never      *)
(* fails because of the body of a reply that was decoded: it returns NaN   *)
(* when the body is not a decimal number (optional sign, digits with at    *)
(* most one point, optionally an exponent), the empty body included, and   *)
(* statuscode is the status of that reply.                                 *)
(***************************************************************************)
PlainDecimal(u) ==
    /\ \E i \in 1..Len(u) : u[i] \in 48..57
    /\ \A i \in 1..Len(u) : u[i] \in 48..57 \cup {46}
    /\ Cardinality({i \in 1..Len(u) : u[i] = 46}) <= 1

IsDecimal(b) ==
    LET u == IF b # <<>> /\ b[1] \in {43, 45} THEN Tail(b) ELSE b
        epos == FirstIndex(u, {101, 69})
        x == Drop(u, epos)
    IN  IF epos = 0 THEN PlainDecimal(u)
        ELSE /\ PlainDecimal(Take(u, epos - 1))
             /\ AllDigits(IF x # <<>> /\ x[1] \in {43, 45} THEN Tail(x) ELSE x)

FloatOps == FloatGetters \cup {"films"}

FloatReplied == ReadRan /\ ret.op \in FloatOps /\ Decodes(rx)

C15_NanUnlessDecimal ==
    FloatReplied =>
        /\ ret.kind = "ok"
        /\ statuscode = Head(Text(rx))
        /\ ~IsDecimal(Tail(Text(rx))) => ret.val = NanVal

(***************************************************************************)
(* C15 (amended): a float getter, a film-slot query included, never fails  *)
(* because of the body of a reply that was decoded, and statuscode is the  *)
(* status of that reply.  It returns what float() makes of the body and    *)
(* NaN when float() rejects it, the empty body included; float() accepts   *)
(* decimals, with an exponent too ("1e3" gives 1000), and the words inf,   *)
(* infinity and nan, so that the body "inf" gives infinity, not NaN.       *)
(***************************************************************************)
C15_NanUnlessFloat ==
    FloatReplied =>
        LET b == Tail(Text(rx))
        IN  /\ ret.kind = "ok"
            /\ ret.stage \in {"run", "done"}
            /\ statuscode = Head(Text(rx))
            /\ ret.body = b
            /\ ret.val = IF float_parse(b).ok THEN float_parse(b).val ELSE NanVal
            /\ (~IsDecimal(b) /\ b # <<105, 110, 102>>) => ret.val = NanVal
            /\ b = <<>> => ret.val = NanVal
            /\ b = <<105, 110, 102>> => ret.val.t = "inf"
            /\ b = <<49, 101, 51>> => ret.val = FloatVal(1, 3)
            /\ b = <<49, 50, 46, 53>> => ret.val = FloatVal(125, -1)

C15_Witness ==
    /\ FloatReplied
    /\ ret.op = "density"
    /\ ret.body = <<>>
    /\ ret.val = NanVal
    /\ statuscode = 65
    /\ decoded = 65

(***************************************************************************)
(* C16: the session is half-duplex.  Every query() call, the 27 of a films *)
(* call included, starts when no query is under way, writes exactly one    *)
(* request frame (none when the command is refused before the write),      *)
(* reads nothing before it has written, and ends either with one reply     *)
(* frame read, taking exactly the bytes of that frame from the transport,  *)
(* or with a failure; the next request frame is written only by the next   *)
(* query() call.                                                           *)
(***************************************************************************)
Asks == ret'.op # "idle" /\ (ret'.op = "films" => InFilms)

C16_HalfDuplex ==
    [][Asks =>
         /\ Idle \/ InFilms
         /\ wire' \in {<<>>, <<2, Len(ret'.cmd)>> \o ret'.cmd
                              \o <<SumSeq(ret'.cmd) % 256>>}
         /\ wire' = <<>> =>
                /\ ret'.stage = "send"
                /\ rx' = <<>>
                /\ inbuf' = inbuf
         /\ wire' # <<>> =>
                /\ Take(rx', Len(inbuf)) = inbuf
                /\ IF ret'.stage = "read"
                   THEN ret'.body = <<>> /\ statuscode' = statuscode
                   ELSE /\ ret'.stage \in {"run", "done"}
                        /\ rx'[1] = 2
                        /\ Len(rx') >= 3 + rx'[2]
                        /\ inbuf' = Drop(rx', 3 + rx'[2])
         /\ (ret'.op = "films" /\ ret'.stage = "run") => wire' # <<>>]_vars

C16_Witness ==
    /\ InFilms
    /\ fpc = 14
    /\ ret.cmd = <<107, 53, 63>>
    /\ wire = <<2, 3, 107, 53, 63, 223>>
    /\ inbuf = <<>>

(***************************************************************************)
(* C17: the power-on status getter sends the command "a" and, for every    *)
(* value 0..255 of the single raw byte b that follows the status character *)
(* in the reply, returns three booleans: bit 0 of b, bit 1 of b, bit 2 of  *)
(* b.                                                                      *)
(***************************************************************************)
C17_PowerOnBits ==
    (ReadRan /\ ret.op = "poweron_status") =>
        /\ ret.cmd = <<97>>
        /\ (HasFrame(rx) /\ rx[2] = 2) =>
               LET b == rx[4]
               IN  /\ ret.kind = "ok"
                   /\ ret.val.t = "flags"
                   /\ ret.val.n = b % 8

C19_OwnReply ==
    [][(Idle /\ (inbuf = <<>> \/ ret.kind = "Late") /\ ~Idle'
        /\ wire' # <<>> /\ ret'.stage \in {"done", "parse"}) =>
         LET own == Drop(rx', Len(inbuf))
         IN  /\ Decodes(own)
             /\ statuscode' = Head(Text(own))
             /\ ret'.body = Tail(Text(own))]_vars

(***************************************************************************)
(* C20: whenever no films call is under way, _films is either None (never  *)
(* queried) or a complete table: exactly 9 records, each with density,     *)
(* zfactor and tooling; a films call that fails part-way leaves no partial *)
(* table behind.                                                           *)
(***************************************************************************)
C20_FilmsComplete ==
    ~InFilms =>
        \/ ~films.cached
        \/ /\ Len(films.rows) = 9
           /\ \A i \in 1..9 :
                  DOMAIN films.rows[i] = {"density", "zfactor", "tooling"}

====
